---- MODULE Spec2Model ----
(***************************************************************************)
(* A model of the Sefaria gpu-server: the Flask handlers of app/app.py,    *)
(* the timing_and_logging decorator, the entity partition-and-link         *)
(* pipeline of app/app_helper.py and the model loading of                  *)
(* app/named_entity_recognizer.py.                                         *)
(*                                                                         *)
(* Spec      one request at a time through wrapper, handler and pipeline.  *)
(* SpecLoad  create_models_from_config: loading the configured models,     *)
(*           their temporary directories and garbage collection.           *)
(***************************************************************************)
EXTENDS Integers, Sequences, FiniteSets, TLC

VARIABLES
    models,          \* models_by_type_and_lang (app.py:97), a nested dict
    nerModel,        \* what the first-stage model predicts for each text
    refModel,        \* which second-stage model is loaded
    pc,              \* position of the request in wrapper and handler
    request,         \* the request being served
    data,            \* request.get_json(silent=True)
    withSpanText,    \* local with_span_text of the handler
    nerMdl,          \* local ner_model of the handler
    refMdl,          \* local ref_part_model of the handler
    spansList,       \* spans (single path, a 1-element list) / spans_list
    rawRefParts,     \* ref_parts (single) / all_raw_ref_part_spans (bulk)
    lookups,         \* history: the <<type, lang>> subscripts evaluated
    invoked,         \* history: the model calls made, with their inputs
    log,             \* the records the wrapper emitted for this request
    handlerOutcome,  \* what func(*args, **kwargs) did
    outcome,         \* what wrapper(*args, **kwargs) did
    ldCfg,           \* SpecLoad: MODEL_PATHS
    ldIdx,           \* SpecLoad: index of the config entry being loaded
    ldPc,            \* SpecLoad: position inside NERFactory.create
    ldInst,          \* SpecLoad: every instance ever constructed
    ldModels,        \* SpecLoad: models_by_type_and_lang: <<type, lang>> -> instance index
    ldApp            \* SpecLoad: "creating", "running" or "failed"

httpVars == <<models, nerModel, refModel, pc, request, data, withSpanText,
              nerMdl, refMdl, spansList, rawRefParts, lookups, invoked, log,
              handlerOutcome, outcome>>
loadVars == <<ldCfg, ldIdx, ldPc, ldInst, ldModels, ldApp>>
vars == <<httpVars, loadVars>>

None == [kind |-> "none"]

(***************************************************************************)
(* Bounds and input universes.                                             *)
(***************************************************************************)
MaxTexts == 2

Text1 == <<"a", "b">>
Text2 == <<"a">>
Texts == {Text1, Text2}

CitationLabels == {"מקור", "Citation"}
Labels == CitationLabels \cup {"בן-אדם"}
Langs == {"he", "en"}

RECURSIVE SeqsUpTo(_, _)
SeqsUpTo(S, n) ==
    IF n = 0 THEN {<<>>}
    ELSE SeqsUpTo(S, n - 1) \cup {Append(s, x) : s \in {q \in SeqsUpTo(S, n - 1) : Len(q) = n - 1}, x \in S}

(***************************************************************************)
(* NESpan: NESpan(ne_doc, start_char, end_char, label).                    *)
(***************************************************************************)
NESpan(doc, start, end, label) == [doc |-> doc, start |-> start, end |-> end, label |-> label]

SpanText(span) == SubSeq(span.doc, span.start + 1, span.end)

\* span.serialize(with_span_text): the span's offsets and label, with its text on request
Serialize(span, with_span_text) ==
    IF with_span_text
    THEN [start |-> span.start, end |-> span.end, label |-> span.label, text |-> SpanText(span)]
    ELSE [start |-> span.start, end |-> span.end, label |-> span.label]

\* What a first-stage model may return for a text: entities in text order, not overlapping
SpansOf(t) ==
    {sp \in {NESpan(t, s, e, l) : s \in 0..(Len(t) - 1), e \in 1..Len(t), l \in Labels} :
        sp.start < sp.end}

NerOutputs(t) ==
    {sq \in SeqsUpTo(SpansOf(t), Len(t)) :
        \A i \in 1..(Len(sq) - 1) : sq[i].end <= sq[i + 1].start}

NerModels ==
    {f \in [Texts -> UNION {NerOutputs(t) : t \in Texts}] : \A t \in Texts : f[t] \in NerOutputs(t)}

RefModels == {"whole", "split"}

\* The second-stage model on one citation text: its reference parts
RefPredict(m, text) ==
    IF m = "whole"
    THEN <<NESpan(text, 0, Len(text), "כותרת")>>
    ELSE IF Len(text) < 2
         THEN <<>>
         ELSE <<NESpan(text, 0, 1, "כותרת"), NESpan(text, 1, Len(text), "מספר")>>

(***************************************************************************)
(* app_helper.py: the partition-and-link pipeline, as pure operators.      *)
(***************************************************************************)
BATCH_SIZE == 150

\* faulty variant: the Hebrew label is missing from the dict
LABEL2TYPEEnglishOnly(label) == IF label = "Citation" THEN "citation" ELSE "none"

\* LABEL2TYPE.get(label): None for a label the dict does not hold
LABEL2TYPE(label) == IF label \in CitationLabels THEN "citation" ELSE "none"

Min(a, b) == IF a < b THEN a ELSE b

\* the loop of _partition_spans over spans[1..n]
RECURSIVE PartitionLoop(_, _)
PartitionLoop(spans, n) ==
    IF n = 0 THEN <<<<>>, <<>>>>
    ELSE LET prev == PartitionLoop(spans, n - 1)
         IN IF LABEL2TYPE(spans[n].label) = "citation"
            THEN <<Append(prev[1], spans[n]), prev[2]>>
            ELSE <<prev[1], Append(prev[2], spans[n])>>

\* _partition_spans(spans) = (cit_spans, other_spans)
PartitionSpans(spans) == PartitionLoop(spans, Len(spans))

\* _bulk_partition_spans(spans_list) = (cit_spans_list, other_spans_list)
BulkPartitionSpans(spans_list) ==
    <<[i \in 1..Len(spans_list) |-> PartitionSpans(spans_list[i])[1]],
      [i \in 1..Len(spans_list) |-> PartitionSpans(spans_list[i])[2]]>>

\* AbstractNER.predict of a loaded model
Predict(model, text) ==
    IF model.type = "named_entity" THEN nerModel[text] ELSE RefPredict(refModel, text)

\* SpacyNER.bulk_predict / HuggingFaceNER.bulk_predict: one span list per text, in order
BulkPredict(model, texts, batch_size) ==
    [i \in 1..Len(texts) |-> Predict(model, texts[i])]

\* SpacyNER.bulk_predict_as_tuples: nlp.pipe(as_tuples=True) yields (doc, context) in order
SpacyBulkPredictAsTuples(model, text__context, batch_size) ==
    [k \in 1..Len(text__context) |-> <<Predict(model, text__context[k][1]), text__context[k][2]>>]

\* faulty variant: the position in the batch is returned in place of the caller's context
HFBulkPredictAsTuplesOwnIndex(model, text__context, batch_size) ==
    LET texts == [k \in 1..Len(text__context) |-> text__context[k][1]]
        all_ents == BulkPredict(model, texts, batch_size)
    IN [k \in 1..Min(Len(texts), Len(all_ents)) |-> <<all_ents[k], k - 1>>]

\* HuggingFaceNER.bulk_predict_as_tuples: zip(texts, all_ents, contexts)
HFBulkPredictAsTuples(model, text__context, batch_size) ==
    LET texts == [k \in 1..Len(text__context) |-> text__context[k][1]]
        contexts == [k \in 1..Len(text__context) |-> text__context[k][2]]
        all_ents == BulkPredict(model, texts, batch_size)
    IN [k \in 1..Min(Len(texts), Min(Len(all_ents), Len(contexts))) |-> <<all_ents[k], contexts[k]>>]

BulkPredictAsTuples(model, text__context, batch_size) ==
    IF model.arch = "spacy"
    THEN SpacyBulkPredictAsTuples(model, text__context, batch_size)
    ELSE HFBulkPredictAsTuples(model, text__context, batch_size)

\* _get_linker_entities, line 34: [span.text for span in cit_spans]
RefPartInputSingle(cit_spans) == [j \in 1..Len(cit_spans) |-> SpanText(cit_spans[j])]

\* _bulk_get_linker_entities, line 62: the reduce over enumerate(cit_spans_list);
\* the context of a citation text is the 0-based index of its input text
RECURSIVE RefPartInput(_, _)
RefPartInput(cit_spans_list, n) ==
    IF n = 0 THEN <<>>
    ELSE RefPartInput(cit_spans_list, n - 1)
         \o [j \in 1..Len(cit_spans_list[n]) |-> <<SpanText(cit_spans_list[n][j]), n - 1>>]

\* defaultdict(list): a missing key reads as the empty list
MapGet(map, key) == IF key \in DOMAIN map THEN map[key] ELSE <<>>

\* faulty variant: the map entry is overwritten instead of extended
RECURSIVE RefPartSpanMapOverwrite(_, _)
RefPartSpanMapOverwrite(all_raw, n) ==
    IF n = 0 THEN [k \in {} |-> <<>>]
    ELSE LET prev == RefPartSpanMapOverwrite(all_raw, n - 1)
             input_idx == all_raw[n][2]
         IN [k \in (DOMAIN prev) \cup {input_idx} |->
                IF k = input_idx THEN <<all_raw[n][1]>> ELSE prev[k]]

\* _bulk_get_linker_entities, lines 64-66: group the results by their context
RECURSIVE RefPartSpanMap(_, _)
RefPartSpanMap(all_raw, n) ==
    IF n = 0 THEN [k \in {} |-> <<>>]
    ELSE LET prev == RefPartSpanMap(all_raw, n - 1)
             input_idx == all_raw[n][2]
         IN [k \in (DOMAIN prev) \cup {input_idx} |->
                IF k = input_idx THEN Append(MapGet(prev, k), all_raw[n][1]) ELSE prev[k]]

\* faulty variant: only the texts that have an entry in the map get an output
BulkLinkerOutputMappedOnly(spans_list, all_raw) ==
    LET parts == BulkPartitionSpans(spans_list)
        map == RefPartSpanMap(all_raw, Len(all_raw))
        keys == {i \in 1..Min(Len(parts[1]), Len(parts[2])) : (i - 1) \in DOMAIN map}
        nth(k) == CHOOSE i \in keys : Cardinality({m \in keys : m < i}) = k - 1
    IN [k \in 1..Cardinality(keys) |->
            <<parts[1][nth(k)], MapGet(map, nth(k) - 1), parts[2][nth(k)]>>]

\* faulty variant: the map is read with the 1-based position of the text
BulkLinkerOutputOffByOne(spans_list, all_raw) ==
    LET parts == BulkPartitionSpans(spans_list)
        map == RefPartSpanMap(all_raw, Len(all_raw))
    IN [i \in 1..Min(Len(parts[1]), Len(parts[2])) |->
            <<parts[1][i], MapGet(map, i), parts[2][i]>>]

\* _bulk_get_linker_entities, lines 68-72: (cit_spans, ref_parts_list, other_spans) per text
BulkLinkerOutput(spans_list, all_raw) ==
    LET parts == BulkPartitionSpans(spans_list)
        map == RefPartSpanMap(all_raw, Len(all_raw))
    IN [i \in 1..Min(Len(parts[1]), Len(parts[2])) |->
            <<parts[1][i], MapGet(map, i - 1), parts[2][i]>>]

\* _get_linker_entities(text, ner_model, ref_part_model)
GetLinkerEntities(text, ner_model, ref_part_model) ==
    LET spans == Predict(ner_model, text)
        parts == PartitionSpans(spans)
        ref_part_input == RefPartInputSingle(parts[1])
        ref_parts == BulkPredict(ref_part_model, ref_part_input, BATCH_SIZE)
    IN <<parts[1], ref_parts, parts[2]>>

\* _bulk_get_linker_entities(texts, ner_model, ref_part_model)
BulkGetLinkerEntities(texts, ner_model, ref_part_model) ==
    LET spans_list == BulkPredict(ner_model, texts, BATCH_SIZE)
        cit_spans_list == BulkPartitionSpans(spans_list)[1]
        ref_part_input == RefPartInput(cit_spans_list, Len(cit_spans_list))
        all_raw == BulkPredictAsTuples(ref_part_model, ref_part_input, BATCH_SIZE)
    IN BulkLinkerOutput(spans_list, all_raw)

SerializeParts(ref_parts, with_span_text) ==
    [j \in 1..Len(ref_parts) |-> Serialize(ref_parts[j], with_span_text)]

\* lines 78-79: the serialized citation span with its 'parts'
SerializeCitation(span, ref_parts, with_span_text) ==
    IF with_span_text
    THEN [start |-> span.start, end |-> span.end, label |-> span.label,
          text |-> SpanText(span), parts |-> SerializeParts(ref_parts, with_span_text)]
    ELSE [start |-> span.start, end |-> span.end, label |-> span.label,
          parts |-> SerializeParts(ref_parts, with_span_text)]

\* faulty variant: the citations are serialized before the other spans
SerializeLinkerEntitiesCitFirst(cit_spans, ref_parts_list, other_spans, with_span_text) ==
    LET serial == [i \in 1..Len(other_spans) |-> Serialize(other_spans[i], with_span_text)]
        cits == [i \in 1..Min(Len(cit_spans), Len(ref_parts_list)) |->
                    SerializeCitation(cit_spans[i], ref_parts_list[i], with_span_text)]
    IN [entities |-> cits \o serial]

\* _serialize_linker_entities
SerializeLinkerEntities(cit_spans, ref_parts_list, other_spans, with_span_text) ==
    LET serial == [i \in 1..Len(other_spans) |-> Serialize(other_spans[i], with_span_text)]
        cits == [i \in 1..Min(Len(cit_spans), Len(ref_parts_list)) |->
                    SerializeCitation(cit_spans[i], ref_parts_list[i], with_span_text)]
    IN [entities |-> serial \o cits]

\* _bulk_serialize_linker_entities
BulkSerializeLinkerEntities(results, with_span_text) ==
    [results |-> [i \in 1..Len(results) |->
        SerializeLinkerEntities(results[i][1], results[i][2], results[i][3], with_span_text)]]

\* make_recognize_entities_output
MakeRecognizeEntitiesOutput(text, ner_model, ref_part_model, with_span_text) ==
    LET r == GetLinkerEntities(text, ner_model, ref_part_model)
    IN SerializeLinkerEntities(r[1], r[2], r[3], with_span_text)

\* make_bulk_recognize_entities_output
MakeBulkRecognizeEntitiesOutput(texts, ner_model, ref_part_model, with_span_text) ==
    BulkSerializeLinkerEntities(BulkGetLinkerEntities(texts, ner_model, ref_part_model),
                                with_span_text)

(***************************************************************************)
(* Requests: endpoint, body and the with_span_text query argument.         *)
(* A JSON body is any JSON value, not only an object.                      *)
(***************************************************************************)
Endpoints == {"recognize_entities", "bulk_recognize_entities"}
QueryArgs == {"absent", "1"}

TextLists == SeqsUpTo(Texts, MaxTexts)

EmptyObject == [k \in {} |-> None]

JsonObjects ==
    {EmptyObject}
    \cup {[lang |-> l] : l \in Langs}
    \cup {[text |-> t] : t \in Texts}
    \cup {[text |-> t, lang |-> l] : t \in Texts, l \in Langs}
    \cup {[texts |-> ts] : ts \in TextLists}
    \cup {[texts |-> ts, lang |-> l] : ts \in TextLists, l \in Langs}

Bodies ==
    {[kind |-> "absent"], [kind |-> "invalid"], [kind |-> "null"]}
    \cup {[kind |-> "bool", val |-> b] : b \in BOOLEAN}
    \cup {[kind |-> "number", val |-> n] : n \in {0, 5}}
    \cup {[kind |-> "string", val |-> v] : v \in {"", "texts", "lang"}}
    \cup {[kind |-> "array", val |-> v] : v \in {<<>>, <<"text">>, <<"texts">>}}
    \cup {[kind |-> "object", val |-> o] : o \in JsonObjects}

Requests == [endpoint : Endpoints, body : Bodies, arg : QueryArgs]

\* request.get_json(silent=True): None when there is no JSON body or it does not parse
GetJson(body) == IF body.kind \in {"absent", "invalid"} THEN [kind |-> "null"] ELSE body

\* Python truth value of the parsed body
Truthy(d) ==
    CASE d.kind = "null" -> FALSE
      [] d.kind = "bool" -> d.val
      [] d.kind = "number" -> d.val # 0
      [] d.kind = "string" -> d.val # ""
      [] d.kind = "array" -> Len(d.val) > 0
      [] d.kind = "object" -> DOMAIN d.val # {}

\* key in s, for the JSON strings of Bodies
IsSubstring(key, s) == key = s \/ (key = "text" /\ s = "texts")

\* whether "key in d" is defined: a number or a bool raises TypeError
IsContainer(d) == d.kind \in {"object", "array", "string"}

\* key in d, for a container d
Contains(d, key) ==
    CASE d.kind = "object" -> key \in DOMAIN d.val
      [] d.kind = "array" -> \E i \in 1..Len(d.val) : d.val[i] = key
      [] d.kind = "string" -> IsSubstring(key, d.val)
      [] OTHER -> FALSE

\* d[key]: the value, or the exception raised
Subscript(d, key) ==
    IF d.kind = "object"
    THEN IF key \in DOMAIN d.val THEN [ok |-> TRUE, val |-> d.val[key]]
         ELSE [ok |-> FALSE, exc |-> "KeyError"]
    ELSE [ok |-> FALSE, exc |-> "TypeError"]

Return(status, body) == [kind |-> "return", status |-> status, body |-> body]
Raise(exc) == [kind |-> "raise", exc |-> exc]

RequiredKey(endpoint) == IF endpoint = "recognize_entities" THEN "text" ELSE "texts"

\* jsonify({"error": "Missing 'text' in request body."}), 400
MissingKeyResponse(endpoint) == Return(400, [error |-> RequiredKey(endpoint)])

\* lines 105-107 / 116-118: "go on", a return or a raise
Validate(endpoint, d) ==
    IF ~Truthy(d) THEN MissingKeyResponse(endpoint)
    ELSE IF ~IsContainer(d) THEN Raise("TypeError")
    ELSE IF ~Contains(d, RequiredKey(endpoint)) THEN MissingKeyResponse(endpoint)
    ELSE [kind |-> "continue"]

\* request.args.get('with_span_text', '0') == '1'
WithSpanTextArg(arg) == (IF arg = "absent" THEN "0" ELSE arg) = "1"

\* models_by_type_and_lang[type][data['lang']]: the dict of the type is subscripted
\* first, then data['lang'] is evaluated, then the inner dict is subscripted
LookupModel(type, d) ==
    IF type \notin DOMAIN models THEN [ok |-> FALSE, exc |-> "KeyError"]
    ELSE LET lang == Subscript(d, "lang")
         IN IF ~lang.ok THEN lang
            ELSE IF lang.val \notin DOMAIN models[type] THEN [ok |-> FALSE, exc |-> "KeyError"]
            ELSE [ok |-> TRUE, val |-> models[type][lang.val]]

(***************************************************************************)
(* create_models_from_config: MODEL_PATHS to the nested dict.              *)
(***************************************************************************)
Entry(arch, lang, type) == [arch |-> arch, lang |-> lang, type |-> type]

\* BaseConfig.MODEL_PATHS and two deployments' APP_CONFIG
BaseConfig == <<Entry("spacy", "he", "ref_part")>>
Configs ==
    {BaseConfig,
     <<Entry("spacy", "he", "named_entity"), Entry("spacy", "he", "ref_part")>>,
     <<Entry("huggingface", "he", "named_entity"), Entry("huggingface", "he", "ref_part"),
       Entry("huggingface", "en", "named_entity")>>}

RECURSIVE CreateModelsFromConfig(_, _)
CreateModelsFromConfig(model_configs, n) ==
    IF n = 0 THEN [t \in {} |-> <<>>]
    ELSE LET prev == CreateModelsFromConfig(model_configs, n - 1)
             cfg == model_configs[n]
             inner == IF cfg.type \in DOMAIN prev THEN prev[cfg.type] ELSE [l \in {} |-> <<>>]
             inner2 == [l \in (DOMAIN inner) \cup {cfg.lang} |->
                          IF l = cfg.lang THEN cfg ELSE inner[l]]
         IN [t \in (DOMAIN prev) \cup {cfg.type} |-> IF t = cfg.type THEN inner2 ELSE prev[t]]

(***************************************************************************)
(* The service: one request at a time.                                     *)
(***************************************************************************)
Init ==
    /\ \E cfg \in Configs : models = CreateModelsFromConfig(cfg, Len(cfg))
    /\ nerModel \in NerModels
    /\ refModel \in RefModels
    /\ pc = "idle"
    /\ request = None
    /\ data = None
    /\ withSpanText = FALSE
    /\ nerMdl = None
    /\ refMdl = None
    /\ spansList = <<>>
    /\ rawRefParts = <<>>
    /\ lookups = <<>>
    /\ invoked = <<>>
    /\ log = <<>>
    /\ handlerOutcome = None
    /\ outcome = None
    /\ ldCfg = <<>>
    /\ ldIdx = 0
    /\ ldPc = "off"
    /\ ldInst = <<>>
    /\ ldModels = <<>>
    /\ ldApp = "off"

IsBulk == request.endpoint = "bulk_recognize_entities"

LogRecord(msg, level) == [msg |-> msg, level |-> level, endpoint |-> request.endpoint]

\* a request arrives at one of the two routes
Receive(req) ==
    /\ pc = "idle"
    /\ request' = req
    /\ pc' = "wrapper"
    /\ UNCHANGED <<models, nerModel, refModel, data, withSpanText, nerMdl, refMdl, spansList,
                   rawRefParts, lookups, invoked, log, handlerOutcome, outcome, loadVars>>

\* the response is sent; the request's locals and its history are dropped
Respond ==
    /\ pc = "responded"
    /\ pc' = "idle"
    /\ request' = None
    /\ data' = None
    /\ withSpanText' = FALSE
    /\ nerMdl' = None
    /\ refMdl' = None
    /\ spansList' = <<>>
    /\ rawRefParts' = <<>>
    /\ lookups' = <<>>
    /\ invoked' = <<>>
    /\ log' = <<>>
    /\ handlerOutcome' = None
    /\ outcome' = None
    /\ UNCHANGED <<models, nerModel, refModel, loadVars>>

\* timing_and_logging.wrapper, lines 45-51: the 'Starting' record
WrapperStart ==
    /\ pc = "wrapper"
    /\ log' = Append(log, LogRecord("Starting", "INFO"))
    /\ pc' = "validate"
    /\ UNCHANGED <<models, nerModel, refModel, request, data, withSpanText, nerMdl, refMdl,
                   spansList, rawRefParts, lookups, invoked, handlerOutcome, outcome, loadVars>>

\* handler lines 105-107 / 116-118
HandlerValidate ==
    /\ pc = "validate"
    /\ data' = GetJson(request.body)
    /\ LET v == Validate(request.endpoint, data')
       IN IF v.kind = "continue"
          THEN pc' = "lookup" /\ UNCHANGED handlerOutcome
          ELSE pc' = "handler_done" /\ handlerOutcome' = v
    /\ UNCHANGED <<models, nerModel, refModel, request, withSpanText, nerMdl, refMdl,
                   spansList, rawRefParts, lookups, invoked, log, outcome, loadVars>>

\* handler lines 108-110 / 119-121
HandlerLookup ==
    /\ pc = "lookup"
    /\ withSpanText' = WithSpanTextArg(request.arg)
    /\ LET ner == LookupModel("named_entity", data)
           ref == LookupModel("ref_part", data)
       IN IF ~ner.ok
          THEN /\ lookups' = Append(lookups, "named_entity")
               /\ handlerOutcome' = Raise(ner.exc)
               /\ pc' = "handler_done"
               /\ UNCHANGED <<nerMdl, refMdl>>
          ELSE IF ~ref.ok
          THEN /\ lookups' = lookups \o <<"named_entity", "ref_part">>
               /\ nerMdl' = ner.val
               /\ handlerOutcome' = Raise(ref.exc)
               /\ pc' = "handler_done"
               /\ UNCHANGED refMdl
          ELSE /\ lookups' = lookups \o <<"named_entity", "ref_part">>
               /\ nerMdl' = ner.val
               /\ refMdl' = ref.val
               /\ pc' = "ner"
               /\ UNCHANGED handlerOutcome
    /\ UNCHANGED <<models, nerModel, refModel, request, data, spansList, rawRefParts,
                   invoked, log, outcome, loadVars>>

Call(model, method, input) == [model |-> model, method |-> method, input |-> input]

\* _get_linker_entities line 32 / _bulk_get_linker_entities line 59
NerStep ==
    /\ pc = "ner"
    /\ IF IsBulk
       THEN /\ spansList' = BulkPredict(nerMdl, data.val.texts, BATCH_SIZE)
            /\ invoked' = Append(invoked, Call(nerMdl, "bulk_predict", data.val.texts))
       ELSE /\ spansList' = <<Predict(nerMdl, data.val.text)>>
            /\ invoked' = Append(invoked, Call(nerMdl, "predict", <<data.val.text>>))
    /\ pc' = "ref"
    /\ UNCHANGED <<models, nerModel, refModel, request, data, withSpanText, nerMdl, refMdl,
                   rawRefParts, lookups, log, handlerOutcome, outcome, loadVars>>

\* _get_linker_entities lines 33-35 / _bulk_get_linker_entities lines 60-63
RefStep ==
    /\ pc = "ref"
    /\ IF IsBulk
       THEN LET cit_spans_list == BulkPartitionSpans(spansList)[1]
                ref_part_input == RefPartInput(cit_spans_list, Len(cit_spans_list))
            IN /\ rawRefParts' = BulkPredictAsTuples(refMdl, ref_part_input, BATCH_SIZE)
               /\ invoked' = Append(invoked, Call(refMdl, "bulk_predict_as_tuples",
                                   [k \in 1..Len(ref_part_input) |-> ref_part_input[k][1]]))
       ELSE LET cit_spans == PartitionSpans(spansList[1])[1]
                ref_part_input == RefPartInputSingle(cit_spans)
            IN /\ rawRefParts' = BulkPredict(refMdl, ref_part_input, BATCH_SIZE)
               /\ invoked' = Append(invoked, Call(refMdl, "bulk_predict", ref_part_input))
    /\ pc' = "serialize"
    /\ UNCHANGED <<models, nerModel, refModel, request, data, withSpanText, nerMdl, refMdl,
                   spansList, lookups, log, handlerOutcome, outcome, loadVars>>

\* handler line 111 / lines 123-124: serialize and return 200
SerializeStep ==
    /\ pc = "serialize"
    /\ handlerOutcome' = Return(200,
            IF IsBulk
            THEN MakeBulkRecognizeEntitiesOutput(data.val.texts, nerMdl, refMdl, withSpanText)
            ELSE MakeRecognizeEntitiesOutput(data.val.text, nerMdl, refMdl, withSpanText))
    /\ pc' = "handler_done"
    /\ UNCHANGED <<models, nerModel, refModel, request, data, withSpanText, nerMdl, refMdl,
                   spansList, rawRefParts, lookups, invoked, log, outcome, loadVars>>

\* a model call raises a library exception, which the handler does not catch
InferenceRaises ==
    /\ pc \in {"ner", "ref"}
    /\ invoked' = Append(invoked, Call(IF pc = "ner" THEN nerMdl ELSE refMdl, "raised", <<>>))
    /\ handlerOutcome' = Raise("RuntimeError")
    /\ pc' = "handler_done"
    /\ UNCHANGED <<models, nerModel, refModel, request, data, withSpanText, nerMdl, refMdl,
                   spansList, rawRefParts, lookups, log, outcome, loadVars>>

\* faulty variant: the except branch does not re-raise, so the wrapper returns None
WrapperResultSwallow(h) == IF h.kind = "raise" THEN Return(200, None) ELSE h

\* timing_and_logging.wrapper, lines 53-69: what the wrapper does with func's outcome
WrapperResult(h) == h

\* the record of lines 56 / 64
WrapperRecord(h) ==
    IF h.kind = "return" THEN LogRecord("Completed", "INFO") ELSE LogRecord("Error", "ERROR")

WrapperFinish ==
    /\ pc = "handler_done"
    /\ log' = Append(log, WrapperRecord(handlerOutcome))
    /\ outcome' = WrapperResult(handlerOutcome)
    /\ pc' = "responded"
    /\ UNCHANGED <<models, nerModel, refModel, request, data, withSpanText, nerMdl, refMdl,
                   spansList, rawRefParts, lookups, invoked, handlerOutcome, loadVars>>

Next ==
    \/ \E req \in Requests : Receive(req)
    \/ WrapperStart
    \/ HandlerValidate
    \/ HandlerLookup
    \/ NerStep
    \/ RefStep
    \/ SerializeStep
    \/ InferenceRaises
    \/ WrapperFinish
    \/ Respond

Spec == Init /\ [][Next]_vars

(***************************************************************************)
(* Model loading: create_models_from_config, NERFactory.create, and the    *)
(* temporary directory of a model extracted from a gs:// archive.          *)
(***************************************************************************)
MaxModels == 2

Archs == {"spacy", "huggingface", "unknown"}
ModelKeys == {<<"named_entity", "he">>, <<"ref_part", "he">>}

\* one MODEL_PATHS entry; gs: whether 'path' starts with "gs://"
LoadEntries == [arch : Archs, gs : BOOLEAN, key : ModelKeys]
LoadConfigs == SeqsUpTo(LoadEntries, MaxModels)

\* a SpacyNER or HuggingFaceNER object.  tmpdir: "none" (HuggingFaceNER: None),
\* "exists" or "removed"
NewInstance(entry) ==
    [arch |-> entry.arch, gs |-> entry.gs, tmpdir |-> "none", loaded |-> FALSE,
     failed |-> FALSE, collected |-> FALSE, cleanups |-> 0, delRaised |-> FALSE]

InitLoad ==
    /\ models = <<>>
    /\ nerModel = <<>>
    /\ refModel = "whole"
    /\ pc = "off"
    /\ request = None
    /\ data = None
    /\ withSpanText = FALSE
    /\ nerMdl = None
    /\ refMdl = None
    /\ spansList = <<>>
    /\ rawRefParts = <<>>
    /\ lookups = <<>>
    /\ invoked = <<>>
    /\ log = <<>>
    /\ handlerOutcome = None
    /\ outcome = None
    /\ ldCfg \in LoadConfigs
    /\ ldIdx = 1
    /\ ldPc = "next"
    /\ ldInst = <<>>
    /\ ldModels = [k \in {} |-> 0]
    /\ ldApp = "creating"

cur == Len(ldInst)

SetCur(field, value) == [ldInst EXCEPT ![cur] = [@ EXCEPT ![field] = value]]

\* NERFactory.create: dispatch on the architecture; __init__ starts
LdCreate ==
    /\ ldApp = "creating" /\ ldPc = "next" /\ ldIdx <= Len(ldCfg)
    /\ LET entry == ldCfg[ldIdx]
       IN CASE entry.arch = "spacy" ->
                 /\ ldInst' = Append(ldInst, NewInstance(entry))
                 /\ ldPc' = IF entry.gs THEN "sp_fetch" ELSE "sp_load"
                 /\ UNCHANGED ldApp
            [] entry.arch = "huggingface" ->
                 /\ ldInst' = Append(ldInst, NewInstance(entry))
                 /\ ldPc' = "hf_import"
                 /\ UNCHANGED ldApp
            [] OTHER ->
                 /\ ldApp' = "failed"
                 /\ ldPc' = "done"
                 /\ UNCHANGED ldInst
    /\ UNCHANGED <<ldCfg, ldIdx, ldModels, httpVars>>

\* create_models_from_config returns: the app serves requests
LdFinish ==
    /\ ldApp = "creating" /\ ldPc = "next" /\ ldIdx > Len(ldCfg)
    /\ ldApp' = "running"
    /\ ldPc' = "done"
    /\ UNCHANGED <<ldCfg, ldIdx, ldInst, ldModels, httpVars>>

\* HuggingFaceNER.__load_pipeline, lines 125-133
HFImport ==
    /\ ldPc = "hf_import"
    /\ ldPc' = IF ldInst[cur].gs THEN "hf_fetch" ELSE "hf_load"
    /\ UNCHANGED <<ldCfg, ldIdx, ldInst, ldModels, ldApp, httpVars>>

\* line 135: GoogleStorageManager.get_tar_buffer
HFFetch ==
    /\ ldPc = "hf_fetch"
    /\ ldPc' = "hf_tmpdir"
    /\ UNCHANGED <<ldCfg, ldIdx, ldInst, ldModels, ldApp, httpVars>>

\* line 137: self.__tmpdir = TemporaryDirectory()
HFTmpdir ==
    /\ ldPc = "hf_tmpdir"
    /\ ldInst' = SetCur("tmpdir", "exists")
    /\ ldPc' = "hf_extract"
    /\ UNCHANGED <<ldCfg, ldIdx, ldModels, ldApp, httpVars>>

\* lines 138-139: tar_buffer.extractall
HFExtract ==
    /\ ldPc = "hf_extract"
    /\ ldPc' = "hf_load"
    /\ UNCHANGED <<ldCfg, ldIdx, ldInst, ldModels, ldApp, httpVars>>

\* lines 142-157: from_pretrained and pipeline(...) return
HFLoad ==
    /\ ldPc = "hf_load"
    /\ ldInst' = SetCur("loaded", TRUE)
    /\ ldPc' = "store"
    /\ UNCHANGED <<ldCfg, ldIdx, ldModels, ldApp, httpVars>>

\* SpacyNER.__load_model, line 76
SpFetch ==
    /\ ldPc = "sp_fetch"
    /\ ldPc' = "sp_enter"
    /\ UNCHANGED <<ldCfg, ldIdx, ldInst, ldModels, ldApp, httpVars>>

\* line 77: with TemporaryDirectory() as tempdir
SpEnter ==
    /\ ldPc = "sp_enter"
    /\ ldInst' = SetCur("tmpdir", "exists")
    /\ ldPc' = "sp_extract"
    /\ UNCHANGED <<ldCfg, ldIdx, ldModels, ldApp, httpVars>>

\* line 78: tar_buffer.extractall(tempdir)
SpExtract ==
    /\ ldPc = "sp_extract"
    /\ ldPc' = "sp_load"
    /\ UNCHANGED <<ldCfg, ldIdx, ldInst, ldModels, ldApp, httpVars>>

\* lines 79 / 81: spacy.load returns
SpLoad ==
    /\ ldPc = "sp_load"
    /\ ldInst' = SetCur("loaded", TRUE)
    /\ ldPc' = IF ldInst[cur].gs THEN "sp_exit" ELSE "store"
    /\ UNCHANGED <<ldCfg, ldIdx, ldModels, ldApp, httpVars>>

\* the with block of line 77 is left: TemporaryDirectory.__exit__ removes the directory
SpExit ==
    /\ ldPc = "sp_exit"
    /\ ldInst' = SetCur("tmpdir", "removed")
    /\ ldPc' = "store"
    /\ UNCHANGED <<ldCfg, ldIdx, ldModels, ldApp, httpVars>>

\* app.py line 82: models_by_type_and_lang[model_type][cfg['lang']] = model
LdStore ==
    /\ ldPc = "store"
    /\ ldModels' = [k \in (DOMAIN ldModels) \cup {ldCfg[ldIdx].key} |->
                      IF k = ldCfg[ldIdx].key THEN cur ELSE ldModels[k]]
    /\ ldIdx' = ldIdx + 1
    /\ ldPc' = "next"
    /\ UNCHANGED <<ldCfg, ldInst, ldApp, httpVars>>

\* the directory after an exception leaves __load_model / __load_pipeline at position p:
\* inside the with block of SpacyNER (line 77) __exit__ removes it on the way out
TmpdirAfterRaise(inst, p) ==
    IF p \in {"sp_extract", "sp_load"} /\ inst.tmpdir = "exists" THEN "removed" ELSE inst.tmpdir

\* a library call of the loading raises (import, download, extraction, deserialization);
\* nothing catches it, so create_app fails
LdRaise ==
    /\ ldPc \in {"hf_import", "hf_fetch", "hf_extract", "hf_load",
                 "sp_fetch", "sp_extract", "sp_load"}
    /\ ldInst' = [ldInst EXCEPT ![cur] =
                    [@ EXCEPT !.failed = TRUE, !.tmpdir = TmpdirAfterRaise(ldInst[cur], ldPc)]]
    /\ ldApp' = "failed"
    /\ ldPc' = "done"
    /\ UNCHANGED <<ldCfg, ldIdx, ldModels, httpVars>>

\* whether something still refers to instance i
Referenced(i) ==
    \/ ldApp # "failed" /\ \E k \in DOMAIN ldModels : ldModels[k] = i
    \/ i = cur /\ ldPc \notin {"next", "done"}

\* faulty variant: __del__ without its try/except
HFDelNoTry(inst, cleanup_ok) ==
    IF inst.tmpdir # "none"
    THEN [inst EXCEPT !.collected = TRUE,
                      !.cleanups = @ + 1,
                      !.tmpdir = IF cleanup_ok THEN "removed" ELSE @,
                      !.delRaised = ~cleanup_ok]
    ELSE [inst EXCEPT !.collected = TRUE]

\* HuggingFaceNER.__del__; cleanup_ok: whether TemporaryDirectory.cleanup succeeds
HFDel(inst, cleanup_ok) ==
    IF inst.tmpdir # "none"
    THEN [inst EXCEPT !.collected = TRUE,
                      !.cleanups = @ + 1,
                      !.tmpdir = IF cleanup_ok THEN "removed" ELSE @,
                      !.delRaised = FALSE]
    ELSE [inst EXCEPT !.collected = TRUE]

\* an unreferenced instance is garbage-collected; only HuggingFaceNER defines __del__
LdCollect(i, cleanup_ok) ==
    /\ i \in 1..Len(ldInst)
    /\ ~Referenced(i)
    /\ ~ldInst[i].collected
    /\ ldInst' = [ldInst EXCEPT ![i] =
                    IF @.arch = "huggingface" THEN HFDel(@, cleanup_ok)
                    ELSE [@ EXCEPT !.collected = TRUE]]
    /\ UNCHANGED <<ldCfg, ldIdx, ldPc, ldModels, ldApp, httpVars>>

NextLoad ==
    \/ LdCreate
    \/ LdFinish
    \/ HFImport
    \/ HFFetch
    \/ HFTmpdir
    \/ HFExtract
    \/ HFLoad
    \/ SpFetch
    \/ SpEnter
    \/ SpExtract
    \/ SpLoad
    \/ SpExit
    \/ LdStore
    \/ LdRaise
    \/ \E i \in DOMAIN ldInst, ok \in BOOLEAN : LdCollect(i, ok)

SpecLoad == InitLoad /\ [][NextLoad]_vars

(***************************************************************************)
(* Vocabulary of the properties.                                           *)
(***************************************************************************)
Responded == pc = "responded"
Ok200 == Responded /\ outcome.kind = "return" /\ outcome.status = 200

\* the texts of the request and the results answered for them, in both paths
InputTexts == IF IsBulk THEN request.body.val.texts ELSE <<request.body.val.text>>
ResultList == IF IsBulk THEN outcome.body.results ELSE <<outcome.body>>
WantText == request.arg = "1"

IsCitationSpan(span) == span.label = "מקור" \/ span.label = "Citation"
IsOtherSpan(span) == ~IsCitationSpan(span)
HasParts(entity) == "parts" \in DOMAIN entity

\* an entity without its 'parts'
EntityCore(entity) == [k \in (DOMAIN entity) \ {"parts"} |-> entity[k]]
Cores(entities) == [k \in 1..Len(entities) |-> EntityCore(entities[k])]
Serials(spans) == [k \in 1..Len(spans) |-> Serialize(spans[k], WantText)]
Count(seq, x) == Cardinality({k \in 1..Len(seq) : seq[k] = x})

RECURSIVE Flatten(_, _)
Flatten(seqs, n) == IF n = 0 THEN <<>> ELSE Flatten(seqs, n - 1) \o seqs[n]

\* C1: a bulk answer holds exactly one result per input text, in input order, and
\* every entity of results[i] is a span the first-stage model returned for texts[i]
C1_OneResultPerText ==
    (Ok200 /\ IsBulk) =>
        /\ Len(ResultList) = Len(InputTexts)
        /\ \A i \in 1..Len(ResultList) :
             /\ "entities" \in DOMAIN ResultList[i]
             /\ \A k \in 1..Len(ResultList[i].entities) :
                  \E m \in 1..Len(nerModel[InputTexts[i]]) :
                      EntityCore(ResultList[i].entities[k])
                          = Serialize(nerModel[InputTexts[i]][m], WantText)

\* a bulk answer for two texts, one without any citation span and one with a citation
C1_Witness ==
    /\ Ok200 /\ IsBulk /\ Len(InputTexts) = 2
    /\ \E i \in 1..2 : SelectSeq(nerModel[InputTexts[i]], IsCitationSpan) = <<>>
    /\ \E i \in 1..2 : SelectSeq(nerModel[InputTexts[i]], IsCitationSpan) # <<>>
    /\ Len(ResultList) = 2

\* C2: in a bulk answer the 'parts' of the j-th citation entity of results[i] are the
\* second-stage model's output for the text of the j-th citation span of texts[i]
C2_PartsAligned ==
    (Ok200 /\ IsBulk) =>
        \A i \in 1..Len(InputTexts) :
            i <= Len(ResultList) /\
            LET citEnts == SelectSeq(ResultList[i].entities, HasParts)
                citSpans == SelectSeq(nerModel[InputTexts[i]], IsCitationSpan)
            IN /\ Len(citEnts) = Len(citSpans)
               /\ \A j \in 1..Len(citSpans) :
                    /\ EntityCore(citEnts[j]) = Serialize(citSpans[j], WantText)
                    /\ citEnts[j].parts
                         = SerializeParts(RefPredict(refModel, SpanText(citSpans[j])), WantText)

\* two texts with citation spans whose second-stage outputs differ
C2_Witness ==
    /\ Ok200 /\ IsBulk /\ Len(InputTexts) = 2
    /\ LET c1 == SelectSeq(nerModel[InputTexts[1]], IsCitationSpan)
           c2 == SelectSeq(nerModel[InputTexts[2]], IsCitationSpan)
       IN /\ Len(c1) = 2 /\ Len(c2) = 1
          /\ RefPredict(refModel, SpanText(c1[2])) # RefPredict(refModel, SpanText(c2[1]))
          /\ Len(SelectSeq(ResultList[2].entities, HasParts)) = 1

\* C3, as claimed: the entities of a text appear in the order of the model's spans
C3_Original_EntitiesInSpanOrder ==
    Ok200 =>
        \A i \in 1..Len(ResultList) :
            Cores(ResultList[i].entities) = Serials(nerModel[InputTexts[i]])

\* C3, amended: the entities of a text are its non-citation spans in model order,
\* followed by its citation spans in model order
C3_EntitiesGroupedInSpanOrder ==
    Ok200 =>
        \A i \in 1..Len(ResultList) :
            Cores(ResultList[i].entities)
                = Serials(SelectSeq(nerModel[InputTexts[i]], IsOtherSpan))
                  \o Serials(SelectSeq(nerModel[InputTexts[i]], IsCitationSpan))

\* an answer for a text whose first span is a citation and whose second is not
C3_Witness ==
    /\ Ok200
    /\ \E i \in 1..Len(InputTexts) :
         LET spans == nerModel[InputTexts[i]]
         IN /\ Len(spans) = 2 /\ IsCitationSpan(spans[1]) /\ IsOtherSpan(spans[2])
            /\ Len(ResultList[i].entities) = 2
            /\ HasParts(ResultList[i].entities[2])

\* whether the body has the key, where "key in body" is defined
BodyHasKey(body, key) ==
    CASE body.kind = "object" -> key \in DOMAIN body.val
      [] body.kind = "array" -> \E i \in 1..Len(body.val) : body.val[i] = key
      [] body.kind = "string" -> IsSubstring(key, body.val)
      [] OTHER -> FALSE

\* C4: a request whose body is absent, not valid JSON, an empty object or without the
\* required key is answered 400 with an error, and no model is looked up or invoked
C4_InvalidBodyAnswered400 ==
    (Responded /\ ~BodyHasKey(request.body, RequiredKey(request.endpoint))) =>
        /\ outcome.kind = "return"
        /\ outcome.status = 400
        /\ "error" \in DOMAIN outcome.body
        /\ lookups = <<>>
        /\ invoked = <<>>

\* whether both model dicts hold the language the body names
LangConfigured(body) ==
    /\ "lang" \in DOMAIN body.val
    /\ \A type \in {"named_entity", "ref_part"} :
         type \in DOMAIN models /\ body.val.lang \in DOMAIN models[type]

\* C5: a request that carries the required key but no 'lang', or a 'lang' without a
\* configured model, is answered 400 instead of ending in an exception
C5_MissingLangAnswered400 ==
    (/\ Responded
     /\ request.body.kind = "object"
     /\ RequiredKey(request.endpoint) \in DOMAIN request.body.val
     /\ ~LangConfigured(request.body)) =>
        /\ outcome.kind = "return"
        /\ outcome.status = 400

C7_NoSpanLostOrDuplicated ==
    Ok200 =>
        /\ Len(ResultList) = Len(InputTexts)
        /\ \A i \in 1..Len(ResultList) :
             LET cores == Cores(ResultList[i].entities)
                 serials == Serials(nerModel[InputTexts[i]])
             IN /\ Len(cores) = Len(serials)
                /\ \A k \in 1..Len(serials) : Count(cores, serials[k]) = Count(serials, serials[k])

\* a bulk answer in which one text has two citation spans and the other has one
C7_Witness ==
    /\ Ok200 /\ IsBulk /\ Len(InputTexts) = 2
    /\ Len(SelectSeq(nerModel[InputTexts[1]], IsCitationSpan)) = 1
    /\ Len(SelectSeq(nerModel[InputTexts[2]], IsCitationSpan)) = 2
    /\ Len(ResultList[2].entities) = 2

\* C8: spans are split by label into citations ('מקור', 'Citation') and the rest, each
\* group in model order; an entity has 'parts' exactly when it is a citation; only the
\* texts of citation spans are sent to the second-stage model
C8_PartitionBySemanticType ==
    /\ \A i \in 1..Len(spansList) :
         PartitionSpans(spansList[i])
             = <<SelectSeq(spansList[i], IsCitationSpan), SelectSeq(spansList[i], IsOtherSpan)>>
    /\ Ok200 =>
         \A i \in 1..Len(ResultList) : \A k \in 1..Len(ResultList[i].entities) :
             HasParts(ResultList[i].entities[k])
                 <=> ResultList[i].entities[k].label \in {"מקור", "Citation"}
    /\ (/\ pc \in {"serialize", "handler_done", "responded"}
        /\ Len(invoked) = 2
        /\ invoked[2].method # "raised") =>
         /\ invoked[2].model.type = "ref_part"
         /\ invoked[2].input
              = Flatten([i \in 1..Len(InputTexts) |->
                    [j \in 1..Len(SelectSeq(nerModel[InputTexts[i]], IsCitationSpan)) |->
                        SpanText(SelectSeq(nerModel[InputTexts[i]], IsCitationSpan)[j])]],
                    Len(InputTexts))

\* an answer covering a 'מקור' span, a 'Citation' span and a span of another label
C8_Witness ==
    /\ Ok200
    /\ \E l \in Labels \ CitationLabels :
         \A w \in {"מקור", "Citation", l} :
            \E i \in 1..Len(ResultList) : \E k \in 1..Len(ResultList[i].entities) :
                /\ ResultList[i].entities[k].label = w
                /\ HasParts(ResultList[i].entities[k]) <=> w # l
    /\ Len(invoked[2].input) >= 2

\* C9: every result of a bulk answer equals the single-path output for that text
C9_BulkAgreesWithSingle ==
    (Ok200 /\ IsBulk) =>
        /\ Len(ResultList) = Len(InputTexts)
        /\ \A i \in 1..Len(InputTexts) :
             ResultList[i]
                 = MakeRecognizeEntitiesOutput(InputTexts[i], nerMdl, refMdl, WantText)

\* a bulk answer for two different texts, each with a citation and one with another span
C9_Witness ==
    /\ Ok200 /\ IsBulk /\ Len(InputTexts) = 2
    /\ InputTexts[1] # InputTexts[2]
    /\ \A i \in 1..2 : SelectSeq(nerModel[InputTexts[i]], IsCitationSpan) # <<>>
    /\ \E i \in 1..2 : SelectSeq(nerModel[InputTexts[i]], IsOtherSpan) # <<>>
    /\ ResultList[1] # ResultList[2]

\* C10, the part about HuggingFaceNER: the directory is removed only by __del__, at
\* most once, also after a failed load; __del__ never raises, also without a directory
HFTmpdirLifecycle(i) ==
    LET x == ldInst[i]
    IN /\ x.tmpdir = "removed" => x.collected
       /\ x.cleanups <= 1
       /\ ~x.delRaised
       /\ (x.loaded /\ x.gs /\ Referenced(i)) => x.tmpdir = "exists"
       /\ (x.collected /\ x.tmpdir # "none") => x.cleanups = 1
       /\ ~x.gs => (x.tmpdir = "none" /\ x.cleanups = 0)

\* C10, as claimed: the directory of a SpacyNER is removed only after spacy.load returned
C10_Original_TmpdirLifecycle ==
    \A i \in 1..Len(ldInst) :
        /\ ldInst[i].arch = "huggingface" => HFTmpdirLifecycle(i)
        /\ ldInst[i].arch = "spacy" => (ldInst[i].tmpdir = "removed" => ldInst[i].loaded)

\* C10, amended: the directory of a SpacyNER is never removed before or during
\* spacy.load; it is removed once spacy.load has returned or the loading has raised
C10_TmpdirLifecycle ==
    \A i \in 1..Len(ldInst) :
        /\ ldInst[i].arch = "huggingface" => HFTmpdirLifecycle(i)
        /\ ldInst[i].arch = "spacy" =>
             /\ ldInst[i].tmpdir = "removed" => (ldInst[i].loaded \/ ldInst[i].failed)
             /\ (i = cur /\ ldInst[i].gs /\ ldPc \in {"sp_extract", "sp_load"}) =>
                    ldInst[i].tmpdir = "exists"
             /\ ~ldInst[i].gs => ldInst[i].tmpdir = "none"
             /\ ldInst[i].cleanups = 0

\* a SpacyNER loaded from gs:// whose directory is gone, and a HuggingFaceNER whose
\* load failed after the extraction, collected with its directory cleaned up once
C10_Witness ==
    /\ ldApp = "failed"
    /\ \E i \in 1..Len(ldInst) :
         /\ ldInst[i].arch = "spacy" /\ ldInst[i].loaded /\ ldInst[i].tmpdir = "removed"
    /\ \E i \in 1..Len(ldInst) :
         /\ ldInst[i].arch = "huggingface" /\ ldInst[i].failed /\ ldInst[i].collected
         /\ ldInst[i].tmpdir = "removed" /\ ldInst[i].cleanups = 1

====
